---- MODULE Spec2Model ----
(***************************************************************************)
(* State-machine model of the order-and-payment lifecycle of webmarketapi: *)
(* the MongoDB collections products, carts, orders, payments and           *)
(* inventory_alerts, and the HTTP handlers that read and write them.        *)
(*                                                                         *)
(* Every handler is a coroutine; the model gives it one action per awaited  *)
(* database operation (the code between two awaits runs without            *)
(* interruption, each database operation is atomic in the store, and the   *)
(* handler's local variables are private to the request).  Requests run in  *)
(* the slots Procs, so up to two handlers interleave at their awaits.       *)
(*                                                                         *)
(* Modelling conventions:                                                  *)
(*  - a document's _id is its index (orders) or its key (products, users);  *)
(*  - prices are whole currency units (the code's floats; no claim rests    *)
(*    on rounding);                                                        *)
(*  - pydantic constructors build the record they are given: the           *)
(*    validation/coercion of field types is not modelled;                  *)
(*  - the clock `now` ticks when a request arrives; datetime.utcnow() reads *)
(*    it.                                                                  *)
(***************************************************************************)
EXTENDS Integers, Sequences, FiniteSets, TLC

VARIABLES
    products,   \* products collection: product id -> document
    carts,      \* carts collection: user id -> cart document
    orders,     \* orders collection: sequence of documents, _id = index
    payments,   \* payments collection: payment id -> number of stored records
    alerts,     \* inventory_alerts collection: set of documents
    req,        \* request slot -> the handler running in it and its locals
    now         \* clock; also the number of requests that have arrived

vars == <<products, carts, orders, payments, alerts, req, now>>
db == <<products, carts, orders, payments, alerts>>

(***************************************************************************)
(* Bounds and program constants                                            *)
(***************************************************************************)
MaxRequests == 3          \* requests that arrive in one behaviour
MaxStock == 3             \* largest stock the admin sets or adds up to

LOW_STOCK_THRESHOLD == 10

Products == {"p1", "p2"}
Users == {"u1", "u2"}
Procs == {"r1", "r2"}
PaymentIds == {"pay1", "pay2"}
Addresses == {"addr1"}

\* OrderStatus values (models.py)
PENDING == "Pendiente"
PROCESSING == "En Proceso"
SHIPPED == "Enviado"
DELIVERED == "Entregado"
CANCELLED == "Cancelado"
REFUNDED == "Reembolsado"
OrderStatus == {PENDING, PROCESSING, SHIPPED, DELIVERED, CANCELLED, REFUNDED}

(***************************************************************************)
(* Documents                                                               *)
(***************************************************************************)
CartItem(p, q) == [product_id |-> p, quantity |-> q]

OrderItem(p, n, q, price) ==
    [product_id |-> p, name |-> n, quantity |-> q, price_at_purchase |-> price]

Order(u, items, total, addr, t) ==
    [user_id |-> u, items |-> items, total_amount |-> total, status |-> PENDING,
     shipping_address |-> addr, payment_id |-> "None",
     created_at |-> t, updated_at |-> t]

\* the f-string of check_and_create_alert: the text depends on name and stock
AlertMessage(name, stock) == <<"El stock del producto", name, "es bajo", stock>>

InventoryAlert(p, name, stock, t) ==
    [product_id |-> p, product_name |-> name, current_stock |-> stock,
     threshold |-> LOW_STOCK_THRESHOLD, message |-> AlertMessage(name, stock),
     timestamp |-> t]

(***************************************************************************)
(* Pure helpers                                                            *)
(***************************************************************************)
RECURSIVE SumAmount(_)
\* sum of price_at_purchase * quantity over a list of order items
SumAmount(items) ==
    IF items = <<>> THEN 0
    ELSE Head(items).price_at_purchase * Head(items).quantity + SumAmount(Tail(items))

RECURSIVE QtyOf(_, _)
\* total quantity of product p in a list of cart or order items
QtyOf(items, p) ==
    IF items = <<>> THEN 0
    ELSE (IF Head(items).product_id = p THEN Head(items).quantity ELSE 0)
         + QtyOf(Tail(items), p)

(***************************************************************************)
(* Store primitives (motor / MongoDB)                                      *)
(***************************************************************************)
\* an increment that stops at zero
IncStockClamped(prods, p, d) ==
    IF prods[p].exists
    THEN [prods EXCEPT ![p].stock = IF @ + d < 0 THEN 0 ELSE @ + d]
    ELSE prods

\* update_one({"_id": p}, {"$inc": {"stock": d}}): atomic, no-op when no
\* document matches
IncStock(prods, p, d) ==
    IF prods[p].exists
    THEN [prods EXCEPT ![p].stock = @ + d]
    ELSE prods

\* update_one({"_id": p}, {"$set": {"stock": v}})
SetStock(prods, p, v) ==
    IF prods[p].exists
    THEN [prods EXCEPT ![p].stock = v]
    ELSE prods

(***************************************************************************)
(* Requests                                                                *)
(***************************************************************************)
NoArg == [none |-> TRUE]
Snapshot == [products |-> products, carts |-> carts, orders |-> orders,
             payments |-> payments, alerts |-> alerts]

IdleReq == [op |-> "idle", pc |-> "done", resp |-> 0, arg |-> NoArg,
            loc |-> NoArg, pre |-> NoArg]

Running(r) == req[r].pc # "done"

\* a request may arrive in slot r: the slot is free and the run is not over;
\* r2 is used only while r1 is busy (the slots are interchangeable)
CanStart(r) ==
    /\ ~Running(r)
    /\ now < MaxRequests
    /\ (r = "r2" => Running("r1"))

At(r, op, pc) == req[r].op = op /\ req[r].pc = pc

\* a finished request: the slot keeps the handler, its inputs, the HTTP
\* status it answered and the collections as they were when it arrived; the
\* locals are gone
Done(op, arg, code, pre) ==
    [op |-> op, pc |-> "done", resp |-> code, arg |-> arg, loc |-> NoArg,
     pre |-> pre]

\* the handler in slot r ends with HTTP status code
Finish(r, code) == [req EXCEPT ![r] = Done(req[r].op, req[r].arg, code, req[r].pre)]

(***************************************************************************)
(* Init                                                                    *)
(***************************************************************************)
Names == [p1 |-> "Malbec", p2 |-> "Lager"]
Prices == [p1 |-> 10, p2 |-> 7]

InitCartsU1 == { <<CartItem("p1", 1)>>,
                 <<CartItem("p1", 2), CartItem("p2", 1)>> }
InitCartsU2 == { <<CartItem("p1", 1)>> }

Init ==
    /\ \E s1 \in 1..2, s2 \in 0..1 :
          products = [p \in Products |->
                        [exists |-> TRUE, name |-> Names[p], price |-> Prices[p],
                         stock |-> IF p = "p1" THEN s1 ELSE s2]]
    /\ \E c1 \in InitCartsU1, c2 \in InitCartsU2 :
          carts = [u \in Users |->
                     [exists |-> TRUE, items |-> IF u = "u1" THEN c1 ELSE c2]]
    /\ orders = <<>>
    /\ payments = [p \in PaymentIds |-> 0]
    /\ alerts = {}
    /\ req = [r \in Procs |-> IdleReq]
    /\ now = 0

(***************************************************************************)
(* create_order (routers/orders.py)                                        *)
(***************************************************************************)
CreateLocals(cart) ==
    [cart |-> cart, i |-> 1, order_items |-> <<>>, total_amount |-> 0,
     product_ids_to_update |-> <<>>, inserted_id |-> 0, j |-> 1]

\* `not cart_db or not cart_db.get("items")`
CartIsEmpty(cart_db) == ~cart_db.exists \/ cart_db.items = <<>>

\* a stock check that is off by one: lets an order take one unit too many
InsufficientStockLenient(product, item) == product.stock + 1 < item.quantity

\* `product.get("stock", 0) < item.quantity`
InsufficientStock(product, item) == product.stock < item.quantity

\* a snapshot that stores the line total where the unit price belongs
SnapshotItemLineTotal(item, product) ==
    OrderItem(item.product_id, product.name, item.quantity,
              product.price * item.quantity)

\* the OrderItem built from the product as read now
SnapshotItem(item, product) ==
    OrderItem(item.product_id, product.name, item.quantity, product.price)

\* a validation that takes every product for present
ProductMissingNever(product) == FALSE

\* `if not product` (line 59)
ProductMissing(product) == ~product.exists

\* a validation loop that goes straight on to the stock decrements
ValidatedNextDecrementFirst(i, n) == IF i = n THEN "decrement" ELSE "validate"

\* lines 56-96: after the last cart item is validated comes the insert of
\* the order
ValidatedNext(i, n) == IF i = n THEN "insert" ELSE "validate"

\* the request arrives; step 1: find the user's cart
create_order_find_cart(r, u, addr) ==
    /\ CanStart(r)
    /\ now' = now + 1
    /\ LET cart_db == carts[u]
           new == [op |-> "create_order", pc |-> "validate", resp |-> 0,
                   arg |-> [user_id |-> u, shipping_address |-> addr],
                   loc |-> CreateLocals(cart_db.items), pre |-> Snapshot]
       IN  IF CartIsEmpty(cart_db)
           THEN req' = [req EXCEPT ![r] = Done(new.op, new.arg, 400, new.pre)]
           ELSE req' = [req EXCEPT ![r] = new]
    /\ UNCHANGED db

\* step 2, one iteration: read the product, validate, build the order item
create_order_validate(r) ==
    /\ At(r, "create_order", "validate")
    /\ LET l == req[r].loc
           item == l.cart[l.i]
           product == products[item.product_id]
           order_item == SnapshotItem(item, product)
       IN  IF ProductMissing(product)
           THEN req' = Finish(r, 404)
           ELSE IF InsufficientStock(product, item)
           THEN req' = Finish(r, 409)
           ELSE req' = [req EXCEPT
                   ![r].loc = [l EXCEPT
                       !.order_items = Append(@, order_item),
                       !.total_amount =
                           @ + order_item.price_at_purchase * order_item.quantity,
                       !.product_ids_to_update =
                           Append(@, [id |-> item.product_id,
                                      quantity_to_decrement |-> item.quantity]),
                       !.i = @ + 1],
                   ![r].pc = ValidatedNext(l.i, Len(l.cart))]
    /\ UNCHANGED <<db, now>>

\* step 3: insert the order document
create_order_insert(r) ==
    /\ At(r, "create_order", "insert")
    /\ LET l == req[r].loc
           a == req[r].arg
       IN  /\ orders' = Append(orders, Order(a.user_id, l.order_items,
                                             l.total_amount, a.shipping_address, now))
           /\ req' = [req EXCEPT ![r].loc.inserted_id = Len(orders) + 1,
                                 ![r].pc = "decrement"]
    /\ UNCHANGED <<products, carts, payments, alerts, now>>

\* step 4, one iteration: $inc the stock of one product by -quantity
create_order_decrement(r) ==
    /\ At(r, "create_order", "decrement")
    /\ LET l == req[r].loc
           p == l.product_ids_to_update[l.j]
       IN  /\ products' = IncStock(products, p.id, -p.quantity_to_decrement)
           /\ req' = [req EXCEPT
                   ![r].loc.j = @ + 1,
                   ![r].pc = IF l.j = Len(l.product_ids_to_update)
                             THEN "clear_cart" ELSE "decrement"]
    /\ UNCHANGED <<carts, orders, payments, alerts, now>>

\* update_one({"user_id": u}, {"$set": {"items": []}})
ClearCart(cs, u) ==
    IF cs[u].exists THEN [cs EXCEPT ![u].items = <<>>] ELSE cs

\* step 5: empty the user's cart
create_order_clear_cart(r) ==
    /\ At(r, "create_order", "clear_cart")
    /\ carts' = ClearCart(carts, req[r].arg.user_id)
    /\ req' = [req EXCEPT ![r].pc = "refetch"]
    /\ UNCHANGED <<products, orders, payments, alerts, now>>

\* read the created order back and answer 201
create_order_refetch(r) ==
    /\ At(r, "create_order", "refetch")
    /\ req' = Finish(r, 201)
    /\ UNCHANGED <<db, now>>

create_order(r, users) ==
    \/ \E u \in users, addr \in Addresses : create_order_find_cart(r, u, addr)
    \/ create_order_validate(r)
    \/ create_order_insert(r)
    \/ create_order_decrement(r)
    \/ create_order_clear_cart(r)
    \/ create_order_refetch(r)

(***************************************************************************)
(* update_order_status (routers/orders.py), the admin TransitionStatus      *)
(***************************************************************************)
\* ObjectId.is_valid(order_id): the model writes a malformed id as 0
ValidOrderId(order_id) == order_id # 0

\* orders_collection.find_one({"_id": ObjectId(order_id)})
OrderExists(order_id) == order_id \in DOMAIN orders

\* the condition of the `if` at lines 178-180
RestockCondition(new_status, current_status) ==
    /\ new_status \in {CANCELLED, REFUNDED}
    /\ current_status \notin {CANCELLED, REFUNDED}

\* a handler whose restock loop never runs
RestockLoopSkipped(new_status, current_status) == FALSE

\* The `for item in current_order["items"]` loop (line 182) stands at the
\* indentation of that `if`, not inside it: the `if` guards only its
\* logger.info, and the loop runs for every new_status and current_status.
RestockLoopRuns(new_status, current_status) == TRUE

\* the request arrives; steps 1-2: validate the id, read the order
update_order_status_find(r, order_id, new_status) ==
    /\ CanStart(r)
    /\ now' = now + 1
    /\ LET new == [op |-> "update_order_status", pc |-> "restock", resp |-> 0,
                   arg |-> [order_id |-> order_id, new_status |-> new_status],
                   loc |-> NoArg, pre |-> Snapshot]
       IN  IF ~ValidOrderId(order_id)
           THEN req' = [req EXCEPT ![r] = Done(new.op, new.arg, 400, new.pre)]
           ELSE IF ~OrderExists(order_id)
           THEN req' = [req EXCEPT ![r] = Done(new.op, new.arg, 404, new.pre)]
           ELSE LET current_order == orders[order_id]
                    runs == RestockLoopRuns(new_status, current_order.status)
                            /\ current_order.items # <<>>
                IN  req' = [req EXCEPT ![r] =
                        [new EXCEPT
                           !.pc = IF runs THEN "restock" ELSE "set_status",
                           !.loc = [current_order |-> current_order,
                                    current_status |-> current_order.status,
                                    k |-> 1]]]
    /\ UNCHANGED db

\* step 3, one iteration: $inc the stock of one item's product by +quantity
update_order_status_restock(r) ==
    /\ At(r, "update_order_status", "restock")
    /\ LET l == req[r].loc
           item == l.current_order.items[l.k]
       IN  /\ products' = IncStock(products, item.product_id, item.quantity)
           /\ req' = [req EXCEPT
                   ![r].loc.k = @ + 1,
                   ![r].pc = IF l.k = Len(l.current_order.items)
                             THEN "set_status" ELSE "restock"]
    /\ UNCHANGED <<carts, orders, payments, alerts, now>>

\* a $set that leaves an order in a terminal state where it is
SetStatusForwardOnly(order, new_status, t) ==
    IF order.status \in {DELIVERED, CANCELLED, REFUNDED}
    THEN [order EXCEPT !.updated_at = t]
    ELSE [order EXCEPT !.status = new_status, !.updated_at = t]

\* {"$set": {"status": new_status.value, "updated_at": datetime.utcnow()}}
SetStatus(order, new_status, t) ==
    [order EXCEPT !.status = new_status, !.updated_at = t]

\* step 4: $set status and updated_at
update_order_status_set(r) ==
    /\ At(r, "update_order_status", "set_status")
    /\ LET a == req[r].arg
       IN  orders' = [orders EXCEPT ![a.order_id] = SetStatus(@, a.new_status, now)]
    /\ req' = [req EXCEPT ![r].pc = "refetch"]
    /\ UNCHANGED <<products, carts, payments, alerts, now>>

\* step 5: read the order back and answer 200
update_order_status_refetch(r) ==
    /\ At(r, "update_order_status", "refetch")
    /\ req' = Finish(r, 200)
    /\ UNCHANGED <<db, now>>

update_order_status(r, order_ids, statuses) ==
    \/ \E order_id \in order_ids, new_status \in statuses :
          update_order_status_find(r, order_id, new_status)
    \/ update_order_status_restock(r)
    \/ update_order_status_set(r)
    \/ update_order_status_refetch(r)

(***************************************************************************)
(* handle_mercadopago_webhook (routers/payments.py)                        *)
(***************************************************************************)
\* `from fastapi import APIRouter, Depends, HTTPException, status, Request`:
\* the name Response, which every return of the handler uses, is not imported
\* and not defined in the module
ResponseIsDefined == FALSE

\* `return Response(status_code=status.HTTP_200_OK)`: with the name undefined
\* the statement raises NameError; inside the try the except clause catches
\* it and its own `return Response(...)` raises again, so the request ends
\* as an unhandled exception (500)
WebhookReply == IF ResponseIsDefined THEN 200 ELSE 500

Topics == {"payment", "merchant_order"}
GatewayStatuses == {"approved", "rejected", "cancelled", "pending"}

\* external_reference of a payment as the gateway reports it: -1 stands for
\* an absent one, 0 for a string that is no ObjectId, n >= 1 for order id n
ExternalReferences == -1..(Len(orders) + 1)

\* `if topic == "payment" and payment_id`
IsPaymentEvent(topic, payment_id) == topic = "payment" /\ payment_id # "None"

\* a branch that compares the order status with a literal no order carries,
\* so that an approved payment never advances the order
WebhookUpdateWrongLiteral(payment_status, order_status) ==
    IF payment_status = "approved" /\ order_status = "Pending" THEN PROCESSING
    ELSE IF payment_status \in {"rejected", "cancelled"} THEN CANCELLED
    ELSE "None"

\* a branch that advances an order on every approved payment
WebhookUpdateUnguarded(payment_status, order_status) ==
    IF payment_status = "approved" THEN PROCESSING
    ELSE IF payment_status \in {"rejected", "cancelled"} THEN CANCELLED
    ELSE "None"

\* the branch taken on the order read at line 117: the $set it issues
WebhookUpdate(payment_status, order_status) ==
    IF payment_status = "approved" /\ order_status = PENDING THEN PROCESSING
    ELSE IF payment_status \in {"rejected", "cancelled"} THEN CANCELLED
    ELSE "None"

\* the request arrives; the gateway is asked for the payment and the payload
\* is stored (lines 98-114)
handle_mercadopago_webhook_receive(r, topic, payment_id, fetched, ref, st) ==
    /\ CanStart(r)
    /\ now' = now + 1
    /\ LET new == [op |-> "handle_mercadopago_webhook", pc |-> "find_order", resp |-> 0,
                   arg |-> [topic |-> topic, payment_id |-> payment_id,
                            fetched |-> fetched, external_reference |-> ref,
                            status |-> st],
                   loc |-> NoArg, pre |-> Snapshot]
           done(code) == Done(new.op, new.arg, code, new.pre)
       IN  IF ~IsPaymentEvent(topic, payment_id)
           THEN /\ req' = [req EXCEPT ![r] = done(WebhookReply)]
                /\ UNCHANGED db
           ELSE IF ~fetched     \* sdk.payment().get raises
           THEN /\ req' = [req EXCEPT ![r] = done(WebhookReply)]
                /\ UNCHANGED db
           ELSE /\ payments' = [payments EXCEPT ![payment_id] = @ + 1]
                /\ UNCHANGED <<products, carts, orders, alerts>>
                /\ req' = [req EXCEPT ![r] =
                     IF ref <= 0     \* no external_reference, or ObjectId(order_id) raises
                     THEN done(WebhookReply)
                     ELSE [new EXCEPT
                             !.loc = [order_id |-> ref, payment_status |-> st]]]

\* find_one of the order (line 117) and the branch on what it read
handle_mercadopago_webhook_find_order(r) ==
    /\ At(r, "handle_mercadopago_webhook", "find_order")
    /\ LET l == req[r].loc
       IN  IF OrderExists(l.order_id)
              /\ WebhookUpdate(l.payment_status, orders[l.order_id].status) # "None"
           THEN req' = [req EXCEPT
                   ![r].pc = "update_order",
                   ![r].loc = [order_id |-> l.order_id,
                               payment_status |-> l.payment_status,
                               set_status |-> WebhookUpdate(l.payment_status,
                                                            orders[l.order_id].status)]]
           ELSE req' = Finish(r, WebhookReply)
    /\ UNCHANGED <<db, now>>

\* update_one of the order (lines 120-123 or 126-129), then the reply
handle_mercadopago_webhook_update_order(r) ==
    /\ At(r, "handle_mercadopago_webhook", "update_order")
    /\ LET l == req[r].loc
       IN  orders' = [orders EXCEPT ![l.order_id].status = l.set_status,
                                    ![l.order_id].payment_id = req[r].arg.payment_id]
    /\ req' = Finish(r, WebhookReply)
    /\ UNCHANGED <<products, carts, payments, alerts, now>>

\* the inputs: the query string, whether the gateway answers, and the payment
\* it reports (enumerated only where the handler reads them)
handle_mercadopago_webhook(r, topics, payment_ids, answers, refs, statuses) ==
    \/ \E topic \in topics, payment_id \in payment_ids, fetched \in answers :
          LET read == IsPaymentEvent(topic, payment_id) /\ fetched
          IN  \E ref \in IF read THEN refs ELSE {-1},
                 st \in IF read THEN statuses ELSE {"pending"} :
                 handle_mercadopago_webhook_receive(r, topic, payment_id,
                                                    fetched, ref, st)
    \/ handle_mercadopago_webhook_find_order(r)
    \/ handle_mercadopago_webhook_update_order(r)

(***************************************************************************)
(* check_and_create_alert, update_product_stock, add_to_product_stock      *)
(* (routers/inventory.py)                                                  *)
(***************************************************************************)
\* a test that leaves out the threshold itself
IsLowStockStrict(product) == product.exists /\ product.stock < LOW_STOCK_THRESHOLD

\* `product and product.get("stock", 0) <= LOW_STOCK_THRESHOLD`
IsLowStock(product) == product.exists /\ product.stock <= LOW_STOCK_THRESHOLD

\* alerts_collection.find_one({"product_id": p, "message": m})
ExistingAlert(p, message) ==
    \E a \in alerts : a.product_id = p /\ a.message = message

\* first await of check_and_create_alert: read the product
check_and_create_alert_read(r) ==
    /\ req[r].op \in {"update_product_stock", "add_to_product_stock"}
    /\ req[r].pc = "alert_read"
    /\ LET product == products[req[r].arg.product_id]
       IN  req' = [req EXCEPT
               ![r].pc = IF IsLowStock(product) THEN "alert_find" ELSE "refetch",
               ![r].loc = [product |-> product]]
    /\ UNCHANGED <<db, now>>

\* second await: look for an alert with the same product and message
check_and_create_alert_find(r) ==
    /\ req[r].op \in {"update_product_stock", "add_to_product_stock"}
    /\ req[r].pc = "alert_find"
    /\ LET product == req[r].loc.product
           message == AlertMessage(product.name, product.stock)
       IN  req' = [req EXCEPT
               ![r].pc = IF ExistingAlert(req[r].arg.product_id, message)
                         THEN "refetch" ELSE "alert_insert"]
    /\ UNCHANGED <<db, now>>

\* an insert that replaces the product's earlier alerts
InsertAlertReplacing(as, alert) ==
    {a \in as : a.product_id # alert.product_id} \cup {alert}

\* alerts_collection.insert_one(alert.model_dump())
InsertAlert(as, alert) == as \cup {alert}

\* third await: insert the alert
check_and_create_alert_insert(r) ==
    /\ req[r].op \in {"update_product_stock", "add_to_product_stock"}
    /\ req[r].pc = "alert_insert"
    /\ LET product == req[r].loc.product
       IN  alerts' = InsertAlert(alerts,
               InventoryAlert(req[r].arg.product_id, product.name, product.stock, now))
    /\ req' = [req EXCEPT ![r].pc = "refetch"]
    /\ UNCHANGED <<products, carts, orders, payments, now>>

\* last await of both stock handlers: read the product back;
\* Product(**None) raises when the product is gone
stock_handler_refetch(r) ==
    /\ req[r].op \in {"update_product_stock", "add_to_product_stock"}
    /\ req[r].pc = "refetch"
    /\ req' = Finish(r, IF products[req[r].arg.product_id].exists THEN 200 ELSE 500)
    /\ UNCHANGED <<db, now>>

\* the request arrives: $set the stock (new_stock >= 0 by the Body constraint)
update_product_stock_set(r, product_id, new_stock) ==
    /\ CanStart(r)
    /\ now' = now + 1
    /\ LET new == [op |-> "update_product_stock", pc |-> "alert_read", resp |-> 0,
                   arg |-> [product_id |-> product_id, new_stock |-> new_stock],
                   loc |-> NoArg, pre |-> Snapshot]
       IN  IF ~products[product_id].exists     \* matched_count == 0
           THEN /\ req' = [req EXCEPT ![r] = Done(new.op, new.arg, 404, new.pre)]
                /\ UNCHANGED db
           ELSE /\ products' = SetStock(products, product_id, new_stock)
                /\ req' = [req EXCEPT ![r] = new]
                /\ UNCHANGED <<carts, orders, payments, alerts>>

\* the request arrives: $inc the stock (quantity_to_add > 0 by the Body
\* constraint)
add_to_product_stock_inc(r, product_id, quantity_to_add) ==
    /\ CanStart(r)
    /\ now' = now + 1
    /\ LET new == [op |-> "add_to_product_stock", pc |-> "alert_read", resp |-> 0,
                   arg |-> [product_id |-> product_id,
                            quantity_to_add |-> quantity_to_add],
                   loc |-> NoArg, pre |-> Snapshot]
       IN  IF ~products[product_id].exists     \* matched_count == 0
           THEN /\ req' = [req EXCEPT ![r] = Done(new.op, new.arg, 404, new.pre)]
                /\ UNCHANGED db
           ELSE /\ products' = IncStock(products, product_id, quantity_to_add)
                /\ req' = [req EXCEPT ![r] = new]
                /\ UNCHANGED <<carts, orders, payments, alerts>>

update_product_stock(r, product_ids, stocks) ==
    \E product_id \in product_ids, new_stock \in stocks :
        update_product_stock_set(r, product_id, new_stock)

\* stock is kept at or below cap
add_to_product_stock(r, product_ids, quantities, cap) ==
    \E product_id \in product_ids, quantity_to_add \in quantities :
        /\ products[product_id].exists =>
               products[product_id].stock + quantity_to_add <= cap
        /\ add_to_product_stock_inc(r, product_id, quantity_to_add)

check_and_create_alert(r) ==
    \/ check_and_create_alert_read(r)
    \/ check_and_create_alert_find(r)
    \/ check_and_create_alert_insert(r)
    \/ stock_handler_refetch(r)

(***************************************************************************)
(* delete_product (routers/products.py)                                    *)
(***************************************************************************)
DeletedProduct == [exists |-> FALSE, name |-> "", price |-> 0, stock |-> 0]

\* one delete_one; 404 when nothing was deleted, else 204
delete_product(r) ==
    \E product_id \in Products :
        /\ CanStart(r)
        /\ now' = now + 1
        /\ products' = [products EXCEPT ![product_id] = DeletedProduct]
        /\ req' = [req EXCEPT ![r] =
              Done("delete_product", [product_id |-> product_id],
                   IF products[product_id].exists THEN 204 ELSE 404, Snapshot)]
        /\ UNCHANGED <<carts, orders, payments, alerts>>

(***************************************************************************)
(* update_product (routers/products.py)                                    *)
(***************************************************************************)
\* update_one({"_id": p}, {"$set": update_data}): the body is a full Product,
\* so name, price and stock are always among the fields set
SetProduct(prods, p, update_data) ==
    IF prods[p].exists
    THEN [prods EXCEPT ![p].name = update_data.name,
                       ![p].price = update_data.price,
                       ![p].stock = update_data.stock]
    ELSE prods

\* the request arrives: $set the product's fields; 404 when nothing matched
update_product_set(r, product_id, update_data) ==
    /\ CanStart(r)
    /\ now' = now + 1
    /\ LET new == [op |-> "update_product", pc |-> "refetch", resp |-> 0,
                   arg |-> [product_id |-> product_id, update_data |-> update_data],
                   loc |-> NoArg, pre |-> Snapshot]
       IN  IF ~products[product_id].exists     \* matched_count == 0
           THEN /\ req' = [req EXCEPT ![r] = Done(new.op, new.arg, 404, new.pre)]
                /\ UNCHANGED db
           ELSE /\ products' = SetProduct(products, product_id, update_data)
                /\ req' = [req EXCEPT ![r] = new]
                /\ UNCHANGED <<carts, orders, payments, alerts>>

\* read the product back: 200, or 500 when it is gone
update_product_refetch(r) ==
    /\ At(r, "update_product", "refetch")
    /\ req' = Finish(r, IF products[req[r].arg.product_id].exists THEN 200 ELSE 500)
    /\ UNCHANGED <<db, now>>

update_product(r, product_ids, names, prices, stocks) ==
    \/ \E product_id \in product_ids, name \in names, price \in prices,
          stock \in stocks :
          update_product_set(r, product_id,
                             [name |-> name, price |-> price, stock |-> stock])
    \/ update_product_refetch(r)

(***************************************************************************)
(* get_my_orders, get_order_details (routers/orders.py)                    *)
(***************************************************************************)
\* the fields the Order model declares
OrderFields ==
    {"user_id", "items", "total_amount", "status", "shipping_address",
     "payment_id", "created_at", "updated_at"}

\* Order(**order): the model keeps the fields it declares and ignores others
OrderModel(doc) == [f \in OrderFields |-> doc[f]]

RECURSIVE MyOrders(_, _)
\* find({"user_id": u}).sort("created_at", -1) over the first n orders: the
\* collection is in insertion order, so the newest matching order comes first
MyOrders(u, n) ==
    IF n = 0 THEN <<>>
    ELSE (IF orders[n].user_id = u THEN <<OrderModel(orders[n])>> ELSE <<>>)
         \o MyOrders(u, n - 1)

\* a finished read: the slot also keeps the body that was returned
Returned(op, arg, code, body) ==
    [Done(op, arg, code, Snapshot) EXCEPT !.loc = [body |-> body]]

\* one find; the caller's roles are in the token but the handler reads only
\* the user id
get_my_orders(r, callers) ==
    \E user_id \in callers, is_admin \in BOOLEAN :
        /\ CanStart(r)
        /\ now' = now + 1
        /\ req' = [req EXCEPT ![r] =
              Returned("get_my_orders", [user_id |-> user_id, is_admin |-> is_admin],
                       200, MyOrders(user_id, Len(orders)))]
        /\ UNCHANGED db

\* the ownership test of get_order_details (line 146)
OwnsOrder(order, user_id) == order.user_id = user_id

\* one find_one, then 400 / 404 / 403 or the order
get_order_details(r, order_ids, callers) ==
    \E order_id \in order_ids, user_id \in callers, is_admin \in BOOLEAN :
        /\ CanStart(r)
        /\ now' = now + 1
        /\ LET arg == [order_id |-> order_id, user_id |-> user_id,
                       is_admin |-> is_admin]
               answer(code, body) == Returned("get_order_details", arg, code, body)
           IN  req' = [req EXCEPT ![r] =
                 IF ~ValidOrderId(order_id) THEN answer(400, <<>>)
                 ELSE IF ~OrderExists(order_id) THEN answer(404, <<>>)
                 ELSE IF ~OwnsOrder(orders[order_id], user_id) THEN answer(403, <<>>)
                 ELSE answer(200, <<OrderModel(orders[order_id])>>)]
        /\ UNCHANGED db

(***************************************************************************)
(* create_payment_preference (routers/payments.py)                         *)
(***************************************************************************)
\* the ids the gateway gives to the preferences it creates
PreferenceIds == {"pref1", "pref2"}

\* a check that looks at the order's status before it looks at its owner
PreferenceErrorStatusFirst(order_id, user_id) ==
    IF ~ValidOrderId(order_id) THEN 400
    ELSE IF ~OrderExists(order_id) THEN 404
    ELSE IF orders[order_id].status # PENDING THEN 409
    ELSE IF orders[order_id].user_id # user_id THEN 403
    ELSE 0

\* lines 34-44: the status the handler raises before it builds the
\* preference, 0 when it raises none
PreferenceError(order_id, user_id) ==
    IF ~ValidOrderId(order_id) THEN 400
    ELSE IF ~OrderExists(order_id) THEN 404
    ELSE IF orders[order_id].user_id # user_id THEN 403
    ELSE IF orders[order_id].status # PENDING THEN 409
    ELSE 0

\* a store that also resets the order's total
StoreIntentRepriced(order, preference_id) ==
    [payment_preference_id |-> preference_id] @@ [order EXCEPT !.total_amount = 0]

\* update_one({"_id": id}, {"$set": {"payment_preference_id": preference["id"]}}):
\* the field is added to the document when it is not there
StoreIntent(order, preference_id) ==
    [payment_preference_id |-> preference_id] @@ order

\* a finished create_payment_preference: the slot also keeps whether the
\* gateway was asked for a preference
PreferenceDone(arg, code, pre, called) ==
    [Done("create_payment_preference", arg, code, pre) EXCEPT
        !.loc = [gateway_called |-> called]]

\* the request arrives; lines 34-44: validate the id, read the order, check
\* owner and status
create_payment_preference_find(r, order_id, user_id, gateway_ok, preference_id) ==
    /\ CanStart(r)
    /\ now' = now + 1
    /\ LET arg == [order_id |-> order_id, user_id |-> user_id,
                   gateway_ok |-> gateway_ok, preference_id |-> preference_id]
           error == PreferenceError(order_id, user_id)
       IN  req' = [req EXCEPT ![r] =
             IF error # 0
             THEN PreferenceDone(arg, error, Snapshot, FALSE)
             ELSE [op |-> "create_payment_preference", pc |-> "create_preference",
                   resp |-> 0, arg |-> arg, loc |-> NoArg, pre |-> Snapshot]]
    /\ UNCHANGED db

\* lines 69-83: ask the gateway for a preference (a blocking call), store
\* its id on the order and answer; any exception becomes a 500
create_payment_preference_store(r) ==
    /\ At(r, "create_payment_preference", "create_preference")
    /\ LET a == req[r].arg
       IN  IF a.gateway_ok
           THEN /\ orders' = [orders EXCEPT
                                ![a.order_id] = StoreIntent(@, a.preference_id)]
                /\ req' = [req EXCEPT ![r] = PreferenceDone(a, 200, req[r].pre, TRUE)]
           ELSE /\ orders' = orders
                /\ req' = [req EXCEPT ![r] = PreferenceDone(a, 500, req[r].pre, TRUE)]
    /\ UNCHANGED <<products, carts, payments, alerts, now>>

\* the inputs: the path id, the caller, and the gateway's answer (enumerated
\* only where the handler reaches the gateway)
create_payment_preference(r, order_ids, callers, answers) ==
    \/ \E order_id \in order_ids, user_id \in callers :
          \E gateway_ok \in IF PreferenceError(order_id, user_id) = 0
                             THEN answers ELSE {FALSE},
             preference_id \in IF PreferenceError(order_id, user_id) = 0
                                THEN PreferenceIds ELSE {"None"} :
             create_payment_preference_find(r, order_id, user_id, gateway_ok,
                                            preference_id)
    \/ create_payment_preference_store(r)

(***************************************************************************)
(* get_user_cart, save_cart, add_to_cart, update_cart_item_quantity,        *)
(* remove_from_cart, clear_cart (routers/cart.py)                          *)
(***************************************************************************)
CartOps ==
    {"add_to_cart", "update_cart_item_quantity", "remove_from_cart", "clear_cart"}

\* an add that always appends, also when the product is already in the cart
AddItemAppend(items, item) == Append(items, item)

RECURSIVE AddItem(_, _)
\* add_to_cart, lines 94-102: the first item with the product gets the
\* quantity added; with none, the new item is appended
AddItem(items, item) ==
    IF items = <<>> THEN <<item>>
    ELSE IF Head(items).product_id = item.product_id
    THEN <<CartItem(item.product_id, Head(items).quantity + item.quantity)>>
         \o Tail(items)
    ELSE <<Head(items)>> \o AddItem(Tail(items), item)

RECURSIVE SetQuantity(_, _)
\* update_cart_item_quantity, lines 138-148: every item with the product
\* gets the new quantity (the body's quantity is > 0 by the CartItem model)
SetQuantity(items, item) ==
    IF items = <<>> THEN <<>>
    ELSE <<IF Head(items).product_id = item.product_id
           THEN CartItem(item.product_id, item.quantity)
           ELSE Head(items)>>
         \o SetQuantity(Tail(items), item)

\* remove_from_cart, line 177
RemoveItem(items, product_id) ==
    SelectSeq(items, LAMBDA item : item.product_id # product_id)

InCart(items, product_id) ==
    \E k \in DOMAIN items : items[k].product_id = product_id

\* what a cart handler makes of the cart it has read: the new item list, and
\* whether it goes on to save (the update and the remove answer 404 when the
\* product is not in the cart)
EditCart(op, arg, items) ==
    IF op = "add_to_cart"
    THEN [found |-> TRUE, items |-> AddItem(items, CartItem(arg.product_id, arg.quantity))]
    ELSE IF op = "update_cart_item_quantity"
    THEN [found |-> InCart(items, arg.product_id),
          items |-> SetQuantity(items, CartItem(arg.product_id, arg.quantity))]
    ELSE IF op = "remove_from_cart"
    THEN [found |-> InCart(items, arg.product_id),
          items |-> RemoveItem(items, arg.product_id)]
    ELSE [found |-> TRUE, items |-> <<>>]

\* the handler has its Cart object: it edits the items and goes on to save;
\* `own` tells whether the object's _id is that of the user's stored cart
CartAfterRead(rec, items, own) ==
    LET e == EditCart(rec.op, rec.arg, items)
    IN  IF e.found
        THEN [rec EXCEPT !.pc = "save", !.loc = [items |-> e.items, own |-> own]]
        ELSE Done(rec.op, rec.arg, 404, rec.pre)

\* get_user_cart, lines 25-28: the find_one and what follows it
CartRead(rec) ==
    IF carts[rec.arg.user_id].exists
    THEN CartAfterRead(rec, carts[rec.arg.user_id].items, TRUE)
    ELSE [rec EXCEPT !.pc = "insert_cart"]

\* get_user_cart's find_one, for the handlers that read a product first
get_user_cart_find(r) ==
    /\ req[r].op \in CartOps
    /\ req[r].pc = "get_cart"
    /\ req' = [req EXCEPT ![r] = CartRead(req[r])]
    /\ UNCHANGED <<db, now>>

\* get_user_cart, lines 31-34: insert an empty cart. When another request
\* has inserted one since the find_one, the collection holds two documents
\* for the user; `carts` keeps the older one, which the later find_one and
\* update_one by user_id match, and this request's Cart carries the _id of
\* the newer one.
get_user_cart_insert(r) ==
    /\ req[r].op \in CartOps
    /\ req[r].pc = "insert_cart"
    /\ LET u == req[r].arg.user_id
       IN  /\ carts' = IF carts[u].exists THEN carts
                       ELSE [carts EXCEPT ![u] = [exists |-> TRUE, items |-> <<>>]]
           /\ req' = [req EXCEPT ![r] = CartAfterRead(req[r], <<>>, ~carts[u].exists)]
    /\ UNCHANGED <<products, orders, payments, alerts, now>>

\* save_cart, lines 41-45: update_one by the Cart's _id, $set of the whole
\* item list
save_cart(r) ==
    /\ req[r].op \in CartOps
    /\ req[r].pc = "save"
    /\ LET u == req[r].arg.user_id
       IN  carts' = IF req[r].loc.own
                    THEN [carts EXCEPT ![u].items = req[r].loc.items]
                    ELSE carts
    /\ req' = Finish(r, 200)
    /\ UNCHANGED <<products, orders, payments, alerts, now>>

\* lines 80-88 and 124-132: the stock test of add and update
CartStockError(product, quantity) ==
    IF ~product.exists THEN 404
    ELSE IF product.stock < quantity THEN 400
    ELSE 0

\* add_to_cart and update_cart_item_quantity arrive: read the product
cart_item_check(r, op, user_id, product_id, quantity) ==
    /\ CanStart(r)
    /\ now' = now + 1
    /\ LET arg == [user_id |-> user_id, product_id |-> product_id,
                   quantity |-> quantity]
           error == CartStockError(products[product_id], quantity)
       IN  req' = [req EXCEPT ![r] =
             IF error # 0
             THEN Done(op, arg, error, Snapshot)
             ELSE [op |-> op, pc |-> "get_cart", resp |-> 0, arg |-> arg,
                   loc |-> NoArg, pre |-> Snapshot]]
    /\ UNCHANGED db

\* remove_from_cart and clear_cart arrive: their first await is
\* get_user_cart's find_one
cart_read(r, op, arg) ==
    /\ CanStart(r)
    /\ now' = now + 1
    /\ req' = [req EXCEPT ![r] =
          CartRead([op |-> op, pc |-> "get_cart", resp |-> 0, arg |-> arg,
                    loc |-> NoArg, pre |-> Snapshot])]
    /\ UNCHANGED db

add_to_cart(r, users, product_ids, quantities) ==
    \E user_id \in users, product_id \in product_ids, quantity \in quantities :
        cart_item_check(r, "add_to_cart", user_id, product_id, quantity)

update_cart_item_quantity(r, users, product_ids, quantities) ==
    \E user_id \in users, product_id \in product_ids, quantity \in quantities :
        cart_item_check(r, "update_cart_item_quantity", user_id, product_id, quantity)

remove_from_cart(r, users, product_ids) ==
    \E user_id \in users, product_id \in product_ids :
        cart_read(r, "remove_from_cart",
                  [user_id |-> user_id, product_id |-> product_id])

clear_cart(r, users) ==
    \E user_id \in users : cart_read(r, "clear_cart", [user_id |-> user_id])

get_user_cart(r) ==
    \/ get_user_cart_find(r)
    \/ get_user_cart_insert(r)

(***************************************************************************)
(* Specifications                                                          *)
(***************************************************************************)
\* every handler with its full input sets
Handlers(r) ==
    \/ create_order(r, Users)
    \/ update_order_status(r, 0..(Len(orders) + 1), OrderStatus)
    \/ handle_mercadopago_webhook(r, Topics, PaymentIds \cup {"None"}, BOOLEAN,
                                  ExternalReferences, GatewayStatuses)
    \/ update_product_stock(r, Products, 0..MaxStock)
    \/ add_to_product_stock(r, Products, 1..MaxStock, MaxStock)
    \/ check_and_create_alert(r)
    \/ delete_product(r)
    \/ update_product(r, Products, {"Reserva"}, {12}, {0, MaxStock})
    \/ get_my_orders(r, Users)
    \/ get_order_details(r, 0..(Len(orders) + 1), Users)
    \/ create_payment_preference(r, 0..(Len(orders) + 1), Users, BOOLEAN)

\* one request at a time: each handler runs to its response before the next
\* request arrives
NextSeq == Handlers("r1")

SeqSpec == Init /\ [][NextSeq]_vars

\* the handlers that write stock or order status, on the inputs that reach
\* their writes
RacingHandlers(r) ==
    \/ create_order(r, Users)
    \/ update_order_status(r, DOMAIN orders, {CANCELLED, SHIPPED})
    \/ handle_mercadopago_webhook(r, {"payment"}, {"pay1"}, {TRUE},
                                  DOMAIN orders, {"approved", "rejected"})
    \/ update_product_stock(r, {"p1"}, {0, MaxStock})
    \/ add_to_product_stock(r, {"p1"}, {1}, MaxStock)
    \/ check_and_create_alert(r)

\* the stock handlers of the inventory router around the alert threshold,
\* and an order that is placed and cancelled, one request at a time
StocksAroundThreshold ==
    {LOW_STOCK_THRESHOLD - 1, LOW_STOCK_THRESHOLD, LOW_STOCK_THRESHOLD + 1}

NextAlert ==
    \/ update_product_stock("r1", Products, StocksAroundThreshold)
    \/ add_to_product_stock("r1", Products, {1}, LOW_STOCK_THRESHOLD + MaxStock)
    \/ check_and_create_alert("r1")
    \/ create_order("r1", {"u1"})
    \/ update_order_status("r1", DOMAIN orders, {CANCELLED})

AlertSpec == Init /\ [][NextAlert]_vars

\* a catalog and carts in which the first user may have no cart yet
CartInit ==
    /\ \E s1 \in 1..2, s2 \in 0..1 :
          products = [p \in Products |->
                        [exists |-> TRUE, name |-> Names[p], price |-> Prices[p],
                         stock |-> IF p = "p1" THEN s1 ELSE s2]]
    /\ \E c1 \in InitCartsU1 \cup {<<>>}, has \in BOOLEAN :
          /\ (~has => c1 = <<>>)
          /\ carts = [u \in Users |->
                        IF u = "u1" THEN [exists |-> has, items |-> c1]
                        ELSE [exists |-> TRUE, items |-> <<CartItem("p1", 1)>>]]
    /\ orders = <<>>
    /\ payments = [p \in PaymentIds |-> 0]
    /\ alerts = {}
    /\ req = [r \in Procs |-> IdleReq]
    /\ now = 0

\* the cart handlers and create_order of one user
CartHandlers(r) ==
    \/ add_to_cart(r, {"u1"}, Products, {1})
    \/ update_cart_item_quantity(r, {"u1"}, Products, {1, 2})
    \/ remove_from_cart(r, {"u1"}, Products)
    \/ clear_cart(r, {"u1"})
    \/ get_user_cart(r)
    \/ save_cart(r)
    \/ create_order(r, {"u1"})

\* one request at a time, and products may leave the catalog
NextCart == CartHandlers("r1") \/ delete_product("r1")

CartSpec == CartInit /\ [][NextCart]_vars

\* the user's requests interleave at their awaits
NextCartRace == \E r \in Procs : CartHandlers(r)

CartRaceSpec == CartInit /\ [][NextCartRace]_vars

\* the order lifecycle alone, one request at a time: orders are placed,
\* moved by the admin and moved by payments; no admin stock change, no
\* catalog change
NextLifecycle ==
    \/ create_order("r1", Users)
    \/ update_order_status("r1", DOMAIN orders, OrderStatus)
    \/ handle_mercadopago_webhook("r1", {"payment"}, {"pay1"}, {TRUE},
                                  DOMAIN orders, GatewayStatuses)

LifecycleSpec == Init /\ [][NextLifecycle]_vars

\* requests interleave at their awaits
Next == \E r \in Procs : RacingHandlers(r)

Spec == Init /\ [][Next]_vars

(***************************************************************************)
(* Properties                                                              *)
(***************************************************************************)
\* slot r holds a request of handler op that has answered
Answered(r, op) == req[r].op = op /\ req[r].pc = "done"

CancelledOrRefunded == {CANCELLED, REFUNDED}

\* every existing product's stock is what it was when request r arrived plus
\* the quantities of `items`, taken with sign `sign`
StockMovedBy(r, items, sign) ==
    \A p \in Products :
        products[p].exists =>
            products[p].stock = req[r].pre.products[p].stock + sign * QtyOf(items, p)

\* C1: in every reachable state, under every interleaving of create_order,
\* the admin set-stock and add-stock, the admin status transition and the
\* webhook, the stock of every product is >= 0.
C1_StockNonNegative == \A p \in Products : products[p].stock >= 0

\* C2: two create_order requests of different users, each with a cart
\* holding quantity 1 of the same product, that both arrive while the
\* product's stock is 1 and before either has written anything: exactly one
\* answers 201 and the other 409.
C2_ExactlyOneRacingOrderSucceeds ==
    \A p \in Products :
        LET a == req["r1"]
            b == req["r2"]
        IN  ( /\ Answered("r1", "create_order")
              /\ Answered("r2", "create_order")
              /\ a.arg.user_id # b.arg.user_id
              /\ a.pre = b.pre
              /\ a.pre.products[p].exists
              /\ a.pre.products[p].stock = 1
              /\ a.pre.carts[a.arg.user_id].items = <<CartItem(p, 1)>>
              /\ a.pre.carts[b.arg.user_id].items = <<CartItem(p, 1)>> )
            => {a.resp, b.resp} = {201, 409}

\* an admin transition of an existing order that has answered
Transitioned(r) ==
    /\ Answered(r, "update_order_status")
    /\ req[r].resp = 200

PreviousStatus(r) == req[r].pre.orders[req[r].arg.order_id].status

\* C3: when one admin transition sets an order to CANCELLED or REFUNDED and
\* the order's previous status is neither, the stock of every product still
\* in the catalog is increased by exactly the quantity the order's items
\* hold of it, and the order's status is the new status.
C3_RestockOnCancel ==
    \A r \in Procs :
        ( /\ Transitioned(r)
          /\ req[r].arg.new_status \in CancelledOrRefunded
          /\ PreviousStatus(r) \notin CancelledOrRefunded )
        => /\ StockMovedBy(r, req[r].pre.orders[req[r].arg.order_id].items, 1)
           /\ orders[req[r].arg.order_id].status = req[r].arg.new_status

\* a PENDING order holding two units of p1 has been cancelled and p1's stock
\* has grown by two
C3_Witness ==
    \E r \in Procs :
        /\ Transitioned(r)
        /\ req[r].arg.new_status = CANCELLED
        /\ PreviousStatus(r) = PENDING
        /\ QtyOf(req[r].pre.orders[req[r].arg.order_id].items, "p1") = 2
        /\ products["p1"].stock = req[r].pre.products["p1"].stock + 2
        /\ orders[req[r].arg.order_id].status = CANCELLED

\* C4: an admin transition to CANCELLED or REFUNDED of an order that already
\* is CANCELLED or REFUNDED leaves every product's stock unchanged.
C4_NoSecondRestock ==
    \A r \in Procs :
        ( /\ Transitioned(r)
          /\ req[r].arg.new_status \in CancelledOrRefunded
          /\ PreviousStatus(r) \in CancelledOrRefunded )
        => products = req[r].pre.products

\* C5: an admin transition to PENDING, PROCESSING, SHIPPED or DELIVERED
\* leaves every product's stock unchanged, whatever the previous status.
C5_NoRestockOnOtherStatus ==
    \A r \in Procs :
        ( /\ Transitioned(r)
          /\ req[r].arg.new_status \notin CancelledOrRefunded )
        => products = req[r].pre.products

\* the webhook in slot r has answered, after the gateway reported a payment
\* with external_reference = an order that existed when the request arrived
WebhookFor(r, statuses) ==
    /\ Answered(r, "handle_mercadopago_webhook")
    /\ IsPaymentEvent(req[r].arg.topic, req[r].arg.payment_id)
    /\ req[r].arg.fetched
    /\ req[r].arg.status \in statuses
    /\ req[r].arg.external_reference \in DOMAIN req[r].pre.orders

WebhookOrder(r) == req[r].arg.external_reference

\* C6: an approved delivery for a PENDING order sets it to PROCESSING with
\* the payment id attached; a second identical delivery (the order is
\* PROCESSING and already carries that payment id) changes no order; neither
\* delivery changes any product.
C6_WebhookIdempotent ==
    \A r \in Procs :
        WebhookFor(r, {"approved"}) =>
            LET id == WebhookOrder(r)
                before == req[r].pre.orders
            IN  /\ products = req[r].pre.products
                /\ before[id].status = PENDING =>
                       orders = [before EXCEPT
                                   ![id].status = PROCESSING,
                                   ![id].payment_id = req[r].arg.payment_id]
                /\ ( /\ before[id].status = PROCESSING
                     /\ before[id].payment_id = req[r].arg.payment_id )
                   => orders = before

\* the second of two identical approved deliveries has answered
C6_Witness ==
    \E r \in Procs :
        /\ WebhookFor(r, {"approved"})
        /\ req[r].pre.orders[WebhookOrder(r)].status = PROCESSING
        /\ req[r].pre.orders[WebhookOrder(r)].payment_id = req[r].arg.payment_id
        /\ payments[req[r].arg.payment_id] = 2
        /\ orders[WebhookOrder(r)].status = PROCESSING

\* C7: a rejected or cancelled payment for an existing order that is not yet
\* CANCELLED or REFUNDED sets the order to CANCELLED and increases the stock
\* of every product of the order's items by the item's quantity.
C7_WebhookCancelRestocks ==
    \A r \in Procs :
        ( /\ WebhookFor(r, {"rejected", "cancelled"})
          /\ req[r].pre.orders[WebhookOrder(r)].status \notin CancelledOrRefunded )
        => /\ orders[WebhookOrder(r)].status = CANCELLED
           /\ StockMovedBy(r, req[r].pre.orders[WebhookOrder(r)].items, 1)

\* C8: the webhook answers 200 on every path.
C8_WebhookAlwaysAcknowledges ==
    \A r \in Procs :
        Answered(r, "handle_mercadopago_webhook") => req[r].resp = 200

\* the cart of the user of create_order request r, as it was on arrival
CartBefore(r) == req[r].pre.carts[req[r].arg.user_id].items

\* the order item create_order must build for cart item `item`, from the
\* catalog as it was on arrival
ExpectedItem(r, item) ==
    OrderItem(item.product_id,
              req[r].pre.products[item.product_id].name,
              item.quantity,
              req[r].pre.products[item.product_id].price)

\* C9: a create_order that answers 201 had a non-empty cart whose every item
\* was in stock; it has added exactly one order, PENDING, of the caller, with
\* one item per cart item carrying the product's name and price, and
\* total_amount = sum of quantity * price_at_purchase; every product's stock
\* is down by the quantity ordered; the cart exists and is empty.
C9_CartToOrder ==
    \A r \in Procs :
        (Answered(r, "create_order") /\ req[r].resp = 201) =>
            LET cart == CartBefore(r)
                n == Len(req[r].pre.orders)
                o == orders[n + 1]
            IN  /\ cart # <<>>
                /\ \A k \in DOMAIN cart :
                       /\ req[r].pre.products[cart[k].product_id].exists
                       /\ req[r].pre.products[cart[k].product_id].stock >= cart[k].quantity
                /\ Len(orders) = n + 1
                /\ SubSeq(orders, 1, n) = req[r].pre.orders
                /\ o.status = PENDING
                /\ o.user_id = req[r].arg.user_id
                /\ Len(o.items) = Len(cart)
                /\ \A k \in DOMAIN cart : o.items[k] = ExpectedItem(r, cart[k])
                /\ o.total_amount = SumAmount(o.items)
                /\ StockMovedBy(r, cart, -1)
                /\ carts[req[r].arg.user_id].exists
                /\ carts[req[r].arg.user_id].items = <<>>

\* the spec's example: quantity 2 at price 10 gives total 20 (plus a second
\* item), the stock is down by 2 and the cart is empty
C9_Witness ==
    \E r \in Procs :
        /\ Answered(r, "create_order")
        /\ req[r].resp = 201
        /\ Len(CartBefore(r)) = 2
        /\ CartBefore(r)[1] = CartItem("p1", 2)
        /\ orders[Len(orders)].items[1].price_at_purchase = 10
        /\ orders[Len(orders)].total_amount = 27
        /\ products["p1"].stock = req[r].pre.products["p1"].stock - 2
        /\ carts[req[r].arg.user_id].items = <<>>

\* cart item k asks for more than the stock of a product that exists
AsksTooMuch(r, k) ==
    LET item == CartBefore(r)[k]
    IN  /\ req[r].pre.products[item.product_id].exists
        /\ req[r].pre.products[item.product_id].stock < item.quantity

\* cart item k names a product that is not in the catalog
NamesMissingProduct(r, k) ==
    ~req[r].pre.products[CartBefore(r)[k].product_id].exists

NothingWritten(r) ==
    /\ products = req[r].pre.products
    /\ carts = req[r].pre.carts
    /\ orders = req[r].pre.orders

\* C10 as stated: if any item of the cart asks for more than the product's
\* stock, create_order answers 409 and leaves stock, carts and orders as
\* they were.
C10_InsufficientStockAlways409 ==
    \A r \in Procs :
        ( /\ Answered(r, "create_order")
          /\ \E k \in DOMAIN CartBefore(r) : AsksTooMuch(r, k) )
        => /\ req[r].resp = 409
           /\ NothingWritten(r)

\* C10 as amended: if any item of the cart asks for more than the product's
\* stock, create_order leaves stock, carts and orders as they were and
\* answers 409, unless an item before the first such item names a product
\* that no longer exists, and then it answers 404.
C10_InsufficientStockRejected ==
    \A r \in Procs :
        ( /\ Answered(r, "create_order")
          /\ \E k \in DOMAIN CartBefore(r) : AsksTooMuch(r, k) )
        => LET first == CHOOSE k \in DOMAIN CartBefore(r) :
                            /\ AsksTooMuch(r, k)
                            /\ \A j \in 1..(k - 1) : ~AsksTooMuch(r, j)
               missing == \E j \in 1..(first - 1) : NamesMissingProduct(r, j)
           IN  /\ req[r].resp = IF missing THEN 404 ELSE 409
               /\ NothingWritten(r)

\* a two-item cart whose first item was in stock and whose second was not
\* has been refused with 409
C10_Witness ==
    \E r \in Procs :
        /\ Answered(r, "create_order")
        /\ req[r].resp = 409
        /\ Len(CartBefore(r)) = 2
        /\ ~AsksTooMuch(r, 1)
        /\ AsksTooMuch(r, 2)
        /\ NothingWritten(r)

\* C11: no step of any handler (catalog updates and deletions, stock changes,
\* status transitions, payment preferences, webhooks, later orders, reads)
\* changes the item list or the total_amount of an order that exists.
C11_OrderSnapshotImmutable ==
    [][\A i \in DOMAIN orders :
          /\ i \in DOMAIN orders'
          /\ orders'[i].items = orders[i].items
          /\ orders'[i].total_amount = orders[i].total_amount]_vars

\* an update_product has renamed and repriced a product that an existing
\* order holds at the old name and price
C11_Witness ==
    \E r \in Procs, i \in DOMAIN orders :
        /\ Answered(r, "update_product")
        /\ req[r].resp = 200
        /\ i \in DOMAIN req[r].pre.orders
        /\ LET item == orders[i].items[1]
               product == products[item.product_id]
           IN  /\ item.product_id = req[r].arg.product_id
               /\ product.price # item.price_at_purchase
               /\ product.name # item.name
               /\ orders[i].total_amount = SumAmount(orders[i].items)

\* C12: a step of any handler changes no field of an existing order other
\* than status, payment_id and updated_at, and adds no field to it.
C12_OrderFrame ==
    [][\A i \in DOMAIN orders :
          /\ i \in DOMAIN orders'
          /\ DOMAIN orders'[i] = DOMAIN orders[i]
          /\ \A f \in DOMAIN orders[i] \ {"status", "payment_id", "updated_at"} :
                orders'[i][f] = orders[i][f]]_vars

\* the products whose stock differs from what it was when request r arrived
StockChanged(r) ==
    {p \in Products : products[p].stock # req[r].pre.products[p].stock}

\* C13: when create_order, the admin status transition, set-stock or
\* add-stock has answered with success and has left a product with a changed
\* stock that is <= LOW_STOCK_THRESHOLD, an alert for that product with that
\* stock exists.
C13_LowStockAlerted ==
    \A r \in Procs :
        ( /\ req[r].pc = "done"
          /\ req[r].op \in {"create_order", "update_order_status",
                            "update_product_stock", "add_to_product_stock"}
          /\ req[r].resp \in {200, 201} )
        => \A p \in StockChanged(r) :
              IsLowStock(products[p]) =>
                 \E a \in alerts : /\ a.product_id = p
                                   /\ a.current_stock = products[p].stock

\* slot r holds a set-stock or add-stock request that has answered 200
StockHandlerAnswered(r) ==
    /\ req[r].pc = "done"
    /\ req[r].op \in {"update_product_stock", "add_to_product_stock"}
    /\ req[r].resp = 200

\* the alerts that carry product p and the message for its name and stock
AlertsFor(as, p, product) ==
    {a \in as : a.product_id = p
                /\ a.message = AlertMessage(product.name, product.stock)}

\* C14: with one request at a time, no two alerts carry the same product_id
\* and message; every alert was taken at a stock <= LOW_STOCK_THRESHOLD; and
\* a set-stock or add-stock that leaves the stock above the threshold, or at
\* a stock whose message an alert already carries, inserts nothing, while
\* one that leaves it at or below the threshold with no such alert inserts
\* exactly one.
C14_NoDuplicateAlerts ==
    /\ \A a, b \in alerts :
          (a.product_id = b.product_id /\ a.message = b.message) => a = b
    /\ \A a \in alerts : a.current_stock <= LOW_STOCK_THRESHOLD
    /\ \A r \in Procs :
          StockHandlerAnswered(r) =>
             LET p == req[r].arg.product_id
                 before == req[r].pre.alerts
             IN  IF products[p].stock > LOW_STOCK_THRESHOLD
                    \/ AlertsFor(before, p, products[p]) # {}
                 THEN alerts = before
                 ELSE /\ before \subseteq alerts
                      /\ Cardinality(alerts) = Cardinality(before) + 1
                      /\ AlertsFor(alerts, p, products[p]) # {}

\* a product was set to the threshold, alerted, raised above it without an
\* alert, and set to the threshold again: the second time nothing was
\* inserted
C14_Witness ==
    \E r \in Procs :
        /\ StockHandlerAnswered(r)
        /\ LET p == req[r].arg.product_id
           IN  /\ products[p].stock = LOW_STOCK_THRESHOLD
               /\ req[r].pre.products[p].stock = LOW_STOCK_THRESHOLD + 1
               /\ AlertsFor(req[r].pre.alerts, p, products[p]) # {}
               /\ alerts = req[r].pre.alerts
               /\ Cardinality(alerts) = 1

\* slot r holds a get_order_details request for a well-formed id of an
\* existing order that has answered
ReadOrder(r) ==
    /\ Answered(r, "get_order_details")
    /\ ValidOrderId(req[r].arg.order_id)
    /\ req[r].arg.order_id \in DOMAIN req[r].pre.orders

\* C15: get_order_details returns the order when the caller owns it or is an
\* admin and answers 403 otherwise; get_my_orders returns exactly the
\* caller's orders; neither changes a collection.
C15_OwnershipOnRead ==
    \A r \in Procs :
        /\ ReadOrder(r) =>
              LET order == orders[req[r].arg.order_id]
              IN  /\ Snapshot = req[r].pre
                  /\ IF order.user_id = req[r].arg.user_id \/ req[r].arg.is_admin
                     THEN /\ req[r].resp = 200
                          /\ req[r].loc.body = <<OrderModel(order)>>
                     ELSE req[r].resp = 403
        /\ Answered(r, "get_my_orders") =>
              /\ Snapshot = req[r].pre
              /\ req[r].resp = 200
              /\ \A k \in DOMAIN req[r].loc.body :
                    req[r].loc.body[k].user_id = req[r].arg.user_id
              /\ Len(req[r].loc.body) =
                    Cardinality({i \in DOMAIN orders :
                                    orders[i].user_id = req[r].arg.user_id})

\* slot r holds a create_payment_preference request for a well-formed id
\* that has answered
IntentAnswered(r) ==
    /\ Answered(r, "create_payment_preference")
    /\ ValidOrderId(req[r].arg.order_id)

\* every order but order id, and all stock, are as they were when request r
\* arrived
OtherOrdersAndStockKept(r, id) ==
    /\ products = req[r].pre.products
    /\ DOMAIN orders = DOMAIN req[r].pre.orders
    /\ \A i \in DOMAIN orders : i # id => orders[i] = req[r].pre.orders[i]

\* C16: create_payment_preference answers 404 when no order has the id, else
\* 403 when the order is not the caller's, else 409 when it is not PENDING,
\* each time without asking the gateway; otherwise it asks the gateway and
\* on its failure answers 500. In all four cases orders and stock are as
\* they were. Only on the gateway's answer is the preference id stored on
\* that order, with every other order and all stock untouched.
C16_IntentPreconditions ==
    \A r \in Procs :
        IntentAnswered(r) =>
            LET a == req[r].arg
                before == req[r].pre.orders
                expected ==
                    IF a.order_id \notin DOMAIN before THEN 404
                    ELSE IF before[a.order_id].user_id # a.user_id THEN 403
                    ELSE IF before[a.order_id].status # PENDING THEN 409
                    ELSE IF ~a.gateway_ok THEN 500
                    ELSE 200
            IN  /\ req[r].resp = expected
                /\ req[r].loc.gateway_called <=> expected \in {500, 200}
                /\ expected # 200 =>
                      orders = before /\ products = req[r].pre.products
                /\ expected = 200 =>
                      /\ "payment_preference_id" \in DOMAIN orders[a.order_id]
                      /\ orders[a.order_id].payment_preference_id = a.preference_id
                      /\ OtherOrdersAndStockKept(r, a.order_id)

\* a caller who does not own an order that is no longer PENDING was refused
\* with 403, not 409
C16_Witness ==
    \E r \in Procs :
        /\ IntentAnswered(r)
        /\ req[r].arg.order_id \in DOMAIN req[r].pre.orders
        /\ orders[req[r].arg.order_id].user_id # req[r].arg.user_id
        /\ orders[req[r].arg.order_id].status # PENDING
        /\ req[r].resp = 403
        /\ ~req[r].loc.gateway_called

\* slot r holds an answered webhook for a payment the gateway reported
PaymentDelivered(r) ==
    /\ Answered(r, "handle_mercadopago_webhook")
    /\ IsPaymentEvent(req[r].arg.topic, req[r].arg.payment_id)
    /\ req[r].arg.fetched

\* C17: a webhook for an order whose status is not PENDING leaves the
\* order's status as it is, whatever status the gateway reports.
C17_WebhookOnlyFromPending ==
    \A r \in Procs :
        ( /\ PaymentDelivered(r)
          /\ req[r].arg.external_reference \in DOMAIN req[r].pre.orders
          /\ req[r].pre.orders[WebhookOrder(r)].status # PENDING )
        => orders[WebhookOrder(r)].status = req[r].pre.orders[WebhookOrder(r)].status

\* orders and products are as they were when request r arrived
OrdersAndStockKept(r) ==
    /\ orders = req[r].pre.orders
    /\ products = req[r].pre.products

\* C18: a webhook leaves orders and products as they were when its topic is
\* not "payment" or it carries no id (then the payments collection is as it
\* was too), when the payment has no external_reference, when no order has
\* the referenced id, when the gateway status is none of approved, rejected
\* and cancelled, and when the status is approved and the order is not
\* PENDING.
C18_WebhookNoOps ==
    \A r \in Procs :
        /\ ( /\ Answered(r, "handle_mercadopago_webhook")
             /\ ~IsPaymentEvent(req[r].arg.topic, req[r].arg.payment_id) )
           => OrdersAndStockKept(r) /\ payments = req[r].pre.payments
        /\ PaymentDelivered(r) =>
              LET ref == req[r].arg.external_reference
                  st == req[r].arg.status
                  before == req[r].pre.orders
              IN  ( \/ ref = -1
                    \/ ref \notin DOMAIN before
                    \/ st \notin {"approved", "rejected", "cancelled"}
                    \/ (st = "approved" /\ before[ref].status # PENDING) )
                  => OrdersAndStockKept(r)

\* an approved payment with a new payment id arrived for an order that had
\* left PENDING; it was stored and the order was left alone
C18_Witness ==
    \E r \in Procs :
        /\ PaymentDelivered(r)
        /\ req[r].arg.status = "approved"
        /\ req[r].arg.external_reference \in DOMAIN req[r].pre.orders
        /\ orders[WebhookOrder(r)].status \notin {PENDING, PROCESSING}
        /\ orders[WebhookOrder(r)].payment_id # req[r].arg.payment_id
        /\ payments[req[r].arg.payment_id] = req[r].pre.payments[req[r].arg.payment_id] + 1
        /\ OrdersAndStockKept(r)

\* slot r holds an update_order_status request for a well-formed id that has
\* answered
TransitionAnswered(r) ==
    /\ Answered(r, "update_order_status")
    /\ ValidOrderId(req[r].arg.order_id)

\* C19: update_order_status on an existing order answers 200 and leaves the
\* order with the requested status, for every current and every requested
\* status; on an id no order has it answers 404 and changes no collection.
C19_AnyTransitionAllowed ==
    \A r \in Procs :
        TransitionAnswered(r) =>
            IF req[r].arg.order_id \in DOMAIN req[r].pre.orders
            THEN /\ req[r].resp = 200
                 /\ orders[req[r].arg.order_id].status = req[r].arg.new_status
            ELSE /\ req[r].resp = 404
                 /\ Snapshot = req[r].pre

\* an order that was DELIVERED, CANCELLED or REFUNDED has been set back to
\* PENDING
C19_Witness ==
    \E r \in Procs :
        /\ TransitionAnswered(r)
        /\ req[r].arg.order_id \in DOMAIN req[r].pre.orders
        /\ PreviousStatus(r) \in {DELIVERED, CANCELLED, REFUNDED}
        /\ req[r].arg.new_status = PENDING
        /\ req[r].resp = 200
        /\ orders[req[r].arg.order_id].status = PENDING

\* C20: with one request at a time, an admin transition or a webhook that
\* has changed an order's status has set that order's updated_at to the time
\* of the request.
C20_StatusChangeStampsUpdatedAt ==
    \A r \in Procs :
        ( /\ req[r].pc = "done"
          /\ req[r].op \in {"update_order_status", "handle_mercadopago_webhook"} )
        => \A i \in DOMAIN req[r].pre.orders :
              orders[i].status # req[r].pre.orders[i].status
                  => orders[i].updated_at = now

\* cart item k is the first that names a missing product
FirstMissing(r, k) ==
    /\ NamesMissingProduct(r, k)
    /\ \A j \in 1..(k - 1) : ~NamesMissingProduct(r, j)

\* C21 as stated: create_order answers 400 when the user has no cart or an
\* empty one, and 404 when any cart item names a product that is not in the
\* catalog; both times products, carts and orders are as they were.
C21_EmptyCartOrMissingProduct ==
    \A r \in Procs :
        Answered(r, "create_order") =>
            /\ CartIsEmpty(req[r].pre.carts[req[r].arg.user_id])
                  => req[r].resp = 400 /\ NothingWritten(r)
            /\ (\E k \in DOMAIN CartBefore(r) : NamesMissingProduct(r, k))
                  => req[r].resp = 404 /\ NothingWritten(r)

\* C21 as amended: 400 for no cart or an empty one; when a cart item names
\* a missing product, 404, unless an item before the first such item asks
\* for more than its product's stock, and then 409; each time products,
\* carts and orders are as they were.
C21_EmptyCartOrMissingProductRejected ==
    \A r \in Procs :
        Answered(r, "create_order") =>
            /\ CartIsEmpty(req[r].pre.carts[req[r].arg.user_id])
                  => req[r].resp = 400 /\ NothingWritten(r)
            /\ \A k \in DOMAIN CartBefore(r) :
                  FirstMissing(r, k) =>
                     /\ req[r].resp =
                           IF \E j \in 1..(k - 1) : AsksTooMuch(r, j)
                           THEN 409 ELSE 404
                     /\ NothingWritten(r)

\* a two-item cart whose second product had left the catalog was refused
\* with 404 and nothing was written
C21_Witness ==
    \E r \in Procs :
        /\ Answered(r, "create_order")
        /\ Len(CartBefore(r)) = 2
        /\ ~AsksTooMuch(r, 1)
        /\ ~NamesMissingProduct(r, 1)
        /\ NamesMissingProduct(r, 2)
        /\ req[r].resp = 404
        /\ NothingWritten(r)

\* the order that create_order request r has inserted is the one new order,
\* it is PENDING and it is the user's
OrderInserted(r) ==
    /\ Len(orders) = Len(req[r].pre.orders) + 1
    /\ SubSeq(orders, 1, Len(req[r].pre.orders)) = req[r].pre.orders
    /\ orders[Len(orders)].status = PENDING
    /\ orders[Len(orders)].user_id = req[r].arg.user_id
    /\ orders[Len(orders)].items = req[r].loc.order_items

\* C22: with one request at a time, in every state in the middle of a
\* create_order: before the insert nothing is written; while the decrements
\* run the order is already inserted as PENDING, exactly the decrements of
\* the items before the current one are applied and the cart is untouched;
\* and once the cart is emptied every item's decrement is applied.
C22_WriteOrder ==
    \A r \in Procs :
        (req[r].op = "create_order" /\ Running(r)) =>
            LET l == req[r].loc
                u == req[r].arg.user_id
            IN  /\ req[r].pc \in {"validate", "insert"} => NothingWritten(r)
                /\ req[r].pc = "decrement" =>
                      /\ OrderInserted(r)
                      /\ StockMovedBy(r, SubSeq(l.order_items, 1, l.j - 1), -1)
                      /\ carts = req[r].pre.carts
                /\ req[r].pc = "clear_cart" =>
                      /\ OrderInserted(r)
                      /\ StockMovedBy(r, l.order_items, -1)
                      /\ carts = req[r].pre.carts
                /\ req[r].pc = "refetch" =>
                      /\ OrderInserted(r)
                      /\ StockMovedBy(r, l.order_items, -1)
                      /\ carts[u].items = <<>>

\* a create_order on a two-item cart has inserted the order and issued the
\* first decrement but not the second; the cart is still full
C22_Witness ==
    \E r \in Procs :
        /\ At(r, "create_order", "decrement")
        /\ Len(req[r].loc.order_items) = 2
        /\ req[r].loc.j = 2
        /\ OrderInserted(r)
        /\ products["p1"].stock = req[r].pre.products["p1"].stock - 2
        /\ products["p2"].stock = req[r].pre.products["p2"].stock
        /\ carts[req[r].arg.user_id].items # <<>>

\* C23: no step of any handler removes or changes an alert: every alert of
\* a state is an alert of the next state.
C23_AlertsAppendOnly == [][alerts \subseteq alerts']_vars

\* an alert taken at the threshold is still in the log after a
\* cancellation's restock has raised the product above the threshold
C23_Witness ==
    \E r \in Procs, a \in alerts :
        /\ Transitioned(r)
        /\ a.current_stock = LOW_STOCK_THRESHOLD
        /\ a \in req[r].pre.alerts
        /\ req[r].pre.products[a.product_id].stock = LOW_STOCK_THRESHOLD
        /\ products[a.product_id].stock > LOW_STOCK_THRESHOLD

\* C24: a create_payment_preference for an order that already carries a
\* preference id does not ask the gateway for another preference and leaves
\* the stored id as it is.
C24_OneIntentPerOrder ==
    \A r \in Procs :
        ( /\ IntentAnswered(r)
          /\ req[r].arg.order_id \in DOMAIN req[r].pre.orders
          /\ "payment_preference_id" \in
                DOMAIN req[r].pre.orders[req[r].arg.order_id] )
        => /\ ~req[r].loc.gateway_called
           /\ orders[req[r].arg.order_id].payment_preference_id =
                 req[r].pre.orders[req[r].arg.order_id].payment_preference_id

\* the step from this state to the next is request r's and applies a
\* relative stock change: a decrement of create_order, a restock of
\* update_order_status, or the increment of an add_to_product_stock that
\* arrives
RelativeStockStep(r) ==
    /\ req'[r] # req[r]
    /\ \/ At(r, "create_order", "decrement")
       \/ At(r, "update_order_status", "restock")
       \/ (~Running(r) /\ req'[r].op = "add_to_product_stock"
                       /\ req'[r].pc = "alert_read")

\* the change that step asks of product p's stock
StepDelta(r, p) ==
    IF At(r, "create_order", "decrement")
    THEN LET u == req[r].loc.product_ids_to_update[req[r].loc.j]
         IN  IF u.id = p THEN -u.quantity_to_decrement ELSE 0
    ELSE IF At(r, "update_order_status", "restock")
    THEN LET item == req[r].loc.current_order.items[req[r].loc.k]
         IN  IF item.product_id = p THEN item.quantity ELSE 0
    ELSE IF req'[r].arg.product_id = p THEN req'[r].arg.quantity_to_add ELSE 0

\* C25: under every interleaving, each decrement of create_order, each
\* restock of a cancellation and each add-stock changes the product's stock
\* by exactly its delta, counted from the stock at the moment of the write
\* and not from a stock read earlier; so no other request's change is lost
\* and the stock is the initial stock plus the sum of the applied deltas.
C25_RelativeChangesNotLost ==
    [][\A r \in Procs :
          RelativeStockStep(r) =>
             \A p \in Products :
                products'[p].stock = products[p].stock + StepDelta(r, p)]_vars

\* two orders that both read stock 1 have both applied their decrement of
\* one unit: the stock is -1, neither decrement was lost
C25_Witness ==
    /\ \A r \in Procs :
          /\ req[r].op = "create_order"
          /\ req[r].pc \in {"clear_cart", "refetch", "done"}
          /\ req[r].resp \in {0, 201}
          /\ req[r].pre.products["p1"].stock = 1
          /\ QtyOf(CartBefore(r), "p1") = 1
    /\ Len(orders) = 2
    /\ products["p1"].stock = -1

\* every stored cart holds each product at most once, with a quantity > 0
CartWellFormed ==
    \A u \in Users :
        LET items == carts[u].items
        IN  /\ \A j, k \in DOMAIN items :
                  j # k => items[j].product_id # items[k].product_id
            /\ \A k \in DOMAIN items : items[k].quantity > 0

\* the step is request r's add_to_cart getting its cart (the stored one
\* it has just read, or the empty one it has just inserted): the item list
\* it goes on to save holds, of every product, the quantity of that cart,
\* plus the added quantity for the added product
AddMerges(r) ==
    ( /\ req'[r].op = "add_to_cart"
      /\ req'[r].pc = "save"
      /\ req[r].pc # "save" )
    => LET u == req'[r].arg.user_id
           got == IF req[r].pc = "insert_cart" THEN <<>> ELSE carts[u].items
           new == req'[r].loc.items
       IN  \A p \in Products :
              QtyOf(new, p) = QtyOf(got, p)
                              + (IF p = req'[r].arg.product_id
                                 THEN req'[r].arg.quantity ELSE 0)

\* the step is request r's save_cart on the user's stored cart: it stores
\* the item list the handler has built
SaveStores(r) ==
    ( /\ req[r].op \in CartOps
      /\ req[r].pc = "save"
      /\ req'[r].pc = "done"
      /\ req[r].loc.own )
    => carts'[req[r].arg.user_id].items = req[r].loc.items

\* C26: under every interleaving of one user's add_to_cart,
\* update_cart_item_quantity, remove_from_cart, clear_cart and create_order,
\* every stored cart holds at most one item per product and only quantities
\* > 0; and an add_to_cart saves the cart it read with the quantity added to
\* the product's item, not a second item.
C26_CartItemsUnique ==
    /\ []CartWellFormed
    /\ [][\A r \in Procs : AddMerges(r) /\ SaveStores(r)]_vars

\* one unit of p1 was added to a cart that held two: the cart holds p1 once,
\* with quantity 3
C26_Witness ==
    \E r \in Procs :
        /\ Answered(r, "add_to_cart")
        /\ req[r].resp = 200
        /\ req[r].arg.product_id = "p1"
        /\ QtyOf(req[r].pre.carts["u1"].items, "p1") = 2
        /\ Len(carts["u1"].items) = 2
        /\ carts["u1"].items[1] = CartItem("p1", 3)

RECURSIVE ActiveQty(_, _)
\* the quantity of product p held by the orders of os that are neither
\* CANCELLED nor REFUNDED
ActiveQty(os, p) ==
    IF os = <<>> THEN 0
    ELSE (IF Head(os).status \in CancelledOrRefunded THEN 0
          ELSE QtyOf(Head(os).items, p))
         + ActiveQty(Tail(os), p)

\* C27: with only create_order, update_order_status and the webhook, one
\* request at a time, every finished request leaves, for every product, the
\* stock plus the quantity held by orders that are neither CANCELLED nor
\* REFUNDED as it was when the request arrived; with no order at the start,
\* that sum is the product's initial stock.
C27_StockConservation ==
    \A r \in Procs :
        ( /\ req[r].pc = "done"
          /\ req[r].op \in {"create_order", "update_order_status",
                            "handle_mercadopago_webhook"} )
        => \A p \in Products :
              products[p].stock + ActiveQty(orders, p)
                 = req[r].pre.products[p].stock + ActiveQty(req[r].pre.orders, p)

\* C28: with each user's cart filled once and never refilled, under every
\* interleaving at most one order exists per user.
C28_OneOrderPerCartFilling ==
    \A u \in Users :
        Cardinality({i \in DOMAIN orders : orders[i].user_id = u}) <= 1

\* C29: under every interleaving of a user's cart requests with that user's
\* create_order, the step of create_order that empties the cart discards
\* only what the inserted order holds: of every product, the cart holds at
\* that moment no more than the order's snapshot.
C29_ClearDiscardsOnlyOrdered ==
    [][\A r \in Procs :
          (At(r, "create_order", "clear_cart") /\ req'[r].pc = "refetch") =>
             \A p \in Products :
                QtyOf(carts[req[r].arg.user_id].items, p)
                   <= QtyOf(req[r].loc.order_items, p)]_vars

\* C30: under every interleaving of the webhook with an administrator's
\* cancellation, the webhook's write of PROCESSING is never applied to an
\* order that is CANCELLED (and restocked) at the moment of the write.
C30_CancelledNotRevived ==
    [][\A r \in Procs :
          ( /\ At(r, "handle_mercadopago_webhook", "update_order")
            /\ req'[r].pc = "done"
            /\ req[r].loc.set_status = PROCESSING )
          => orders[req[r].loc.order_id].status # CANCELLED]_vars
====
